---- MODULE Spec2Model ----
(*************************************************************************)
(* Model of the webhook dispatch service (src/src/service.rs).           *)
(*                                                                       *)
(* Bytes are integers 0..255, byte strings are sequences of bytes.      *)
(* One request is handled by Service::call (the synchronous decision)   *)
(* and, when a process was spawned, by the task that call hands to      *)
(* tokio::spawn.  The task is modelled one action per stretch of code   *)
(* between two await points.  The HTTP layer (body chunks), the spawned *)
(* process (its exit, the errors of its pipe) and the clock are the     *)
(* environment.                                                          *)
(*************************************************************************)
EXTENDS Integers, Sequences, FiniteSets, TLC

(*************************************************************************)
(* Bounds of the model.                                                  *)
(*************************************************************************)
\* number of requests handled in one behaviour
MaxReq == 1
\* largest configured timeout, in clock ticks
MaxTimeout == 1
\* longest header value handed to parse_signature_header beyond "sha1=" and
\* the hex of a digest
MaxExtra == 2

\* requests sent to one and the same hook path
MaxSame == 2

(*************************************************************************)
(* Byte strings.                                                         *)
(*************************************************************************)
\* ASCII codes used by the header syntax
EQ == 61

\* b"sha1"
SHA1_TOKEN == <<115, 104, 97, 49>>

\* <<Sha1 as FixedOutput>::OutputSize as Unsigned>::USIZE
SIGNATURE_LEN == 20

\* Option<T> is a record: None, or Some(v)
None == "None"
NoneVal == [some |-> FALSE, val |-> <<>>]
Some(v) == [some |-> TRUE, val |-> v]

RECURSIVE Concat(_)
\* the concatenation of a sequence of chunks, in order
Concat(chunks) == IF chunks = <<>> THEN <<>> ELSE Head(chunks) \o Concat(Tail(chunks))

\* header.iter().position(|&b| b == b'=')
Position(header, b) ==
    IF \E i \in 1..Len(header) : header[i] = b
    THEN CHOOSE i \in 1..Len(header) :
            /\ header[i] = b
            /\ \A j \in 1..(i - 1) : header[j] # b
    ELSE 0

\* hex: the value of one hex digit, -1 for a byte that is no hex digit
HexVal(c) ==
    IF c >= 48 /\ c <= 57 THEN c - 48
    ELSE IF c >= 97 /\ c <= 102 THEN c - 87
    ELSE IF c >= 65 /\ c <= 70 THEN c - 55
    ELSE -1

\* hex::decode_to_slice(data, &mut buf) with buf.len() = n
decode_to_slice(data, n) ==
    IF Len(data) % 2 # 0 THEN [ok |-> FALSE, err |-> "OddLength", val |-> <<>>]
    ELSE IF Len(data) \div 2 # n
        THEN [ok |-> FALSE, err |-> "InvalidStringLength", val |-> <<>>]
    ELSE IF \E i \in 1..Len(data) : HexVal(data[i]) = -1
        THEN [ok |-> FALSE, err |-> "InvalidHexCharacter", val |-> <<>>]
    ELSE [ok |-> TRUE, err |-> None,
          val |-> [i \in 1..n |-> HexVal(data[2 * i - 1]) * 16 + HexVal(data[2 * i])]]

\* a mutant of parse_signature_header: the header is split at its LAST '='
parse_signature_header_last_eq(header) ==
    LET eqs == {i \in 1..Len(header) : header[i] = EQ}
        pos == IF eqs = {} THEN 0 ELSE CHOOSE i \in eqs : \A j \in eqs : j <= i
    IN  IF pos = 0 THEN [ok |-> FALSE, err |-> "Malformed", val |-> <<>>]
        ELSE LET method == SubSeq(header, 1, pos - 1)
                 signature_hex == SubSeq(header, pos + 1, Len(header))
             IN  IF method = SHA1_TOKEN
                 THEN LET d == decode_to_slice(signature_hex, SIGNATURE_LEN)
                      IN  IF d.ok THEN [ok |-> TRUE, err |-> None, val |-> d.val]
                          ELSE [ok |-> FALSE, err |-> "Malformed", val |-> <<>>]
                 ELSE [ok |-> FALSE, err |-> "UnknownAlgorithm", val |-> <<>>]

\* parse_signature_header(header)
parse_signature_header(header) ==
    LET pos == Position(header, EQ)
    IN  IF pos = 0 THEN [ok |-> FALSE, err |-> "Malformed", val |-> <<>>]
        ELSE LET method == SubSeq(header, 1, pos - 1)
                 signature_hex == SubSeq(header, pos + 1, Len(header))
             IN  IF method = SHA1_TOKEN
                 THEN LET d == decode_to_slice(signature_hex, SIGNATURE_LEN)
                      IN  IF d.ok THEN [ok |-> TRUE, err |-> None, val |-> d.val]
                          ELSE [ok |-> FALSE, err |-> "Malformed", val |-> <<>>]
                 ELSE [ok |-> FALSE, err |-> "UnknownAlgorithm", val |-> <<>>]


(*************************************************************************)
(* The keyed hash: Hmac<Sha1> of the crates hmac and sha1, computed as  *)
(* FIPS 180-4 and RFC 2104 define it.  A 32-bit word is the pair of its *)
(* 16-bit halves <<high, low>>, so that no sum leaves the integers of   *)
(* TLC.                                                                  *)
(*************************************************************************)
\* 2^n
RECURSIVE Pow2(_)
Pow2(n) == IF n = 0 THEN 1 ELSE 2 * Pow2(n - 1)

\* bit i of x
Bit(x, i) == (x \div Pow2(i)) % 2

\* and, xor of two 4-bit values, tabulated
AndNib == [a \in 0..15 |-> [b \in 0..15 |->
            Bit(a, 0) * Bit(b, 0) + 2 * Bit(a, 1) * Bit(b, 1)
            + 4 * Bit(a, 2) * Bit(b, 2) + 8 * Bit(a, 3) * Bit(b, 3)]]
XorNib == [a \in 0..15 |-> [b \in 0..15 |->
            ((Bit(a, 0) + Bit(b, 0)) % 2) + 2 * ((Bit(a, 1) + Bit(b, 1)) % 2)
            + 4 * ((Bit(a, 2) + Bit(b, 2)) % 2) + 8 * ((Bit(a, 3) + Bit(b, 3)) % 2)]]

\* and, xor of two 16-bit values, nibble by nibble
Nibbles(tab, a, b) ==
    tab[a \div 4096][b \div 4096] * 4096
    + tab[(a \div 256) % 16][(b \div 256) % 16] * 256
    + tab[(a \div 16) % 16][(b \div 16) % 16] * 16
    + tab[a % 16][b % 16]

\* x & y, x ^ y, !x, x.wrapping_add(y) on 32-bit words
And32(x, y) == <<Nibbles(AndNib, x[1], y[1]), Nibbles(AndNib, x[2], y[2])>>
Xor32(x, y) == <<Nibbles(XorNib, x[1], y[1]), Nibbles(XorNib, x[2], y[2])>>
Not32(x) == <<65535 - x[1], 65535 - x[2]>>
Add32(x, y) ==
    <<(x[1] + y[1] + ((x[2] + y[2]) \div 65536)) % 65536, (x[2] + y[2]) % 65536>>

\* x.rotate_left(n), for 0 < n < 32
Rotl32(x, n) ==
    LET w == IF n < 16 THEN x ELSE <<x[2], x[1]>>
        k == n % 16
    IN  IF k = 0 THEN w
        ELSE <<((w[1] * Pow2(k)) % 65536) + (w[2] \div Pow2(16 - k)),
               ((w[2] * Pow2(k)) % 65536) + (w[1] \div Pow2(16 - k))>>

\* the padding of a message of n bytes: 0x80, zeros up to 56 mod 64, and the
\* length in bits as 8 bytes, big-endian
Sha1Padding(n) ==
    LET zeros == (119 - (n % 64)) % 64
        bits == 8 * n
    IN  <<128>> \o [i \in 1..zeros |-> 0]
        \o <<0, 0, 0, 0, (bits \div 16777216) % 256, (bits \div 65536) % 256,
             (bits \div 256) % 256, bits % 256>>

\* the 16 big-endian words of the k-th block of the padded message
Sha1Block(bytes, k) ==
    [t \in 1..16 |->
        LET o == 64 * (k - 1) + 4 * (t - 1)
        IN  <<bytes[o + 1] * 256 + bytes[o + 2], bytes[o + 3] * 256 + bytes[o + 4]>>]

\* the message schedule: W[t] = (W[t-3] ^ W[t-8] ^ W[t-14] ^ W[t-16]) <<< 1
RECURSIVE Sha1Schedule(_)
Sha1Schedule(w) ==
    IF Len(w) = 80 THEN w
    ELSE LET t == Len(w) + 1
         IN  Sha1Schedule(Append(w,
                Rotl32(Xor32(Xor32(w[t - 3], w[t - 8]), Xor32(w[t - 14], w[t - 16])), 1)))

\* the round function and the round constant of round t (from 1)
Sha1F(t, b, c, d) ==
    IF t <= 20 THEN Xor32(And32(b, c), And32(Not32(b), d))
    ELSE IF t <= 40 \/ t > 60 THEN Xor32(Xor32(b, c), d)
    ELSE Xor32(Xor32(And32(b, c), And32(b, d)), And32(c, d))
Sha1K(t) ==
    IF t <= 20 THEN <<23170, 31129>>
    ELSE IF t <= 40 THEN <<28377, 60321>>
    ELSE IF t <= 60 THEN <<36635, 48348>>
    ELSE <<51810, 49622>>

\* the 80 rounds on the working variables v = <<a, b, c, d, e>>; the test
\* of Len(v) has TLC evaluate v round by round
RECURSIVE Sha1Rounds(_, _, _)
Sha1Rounds(v, w, t) ==
    IF t > 80 \/ Len(v) # 5 THEN v
    ELSE LET temp == Add32(Add32(Add32(Rotl32(v[1], 5), Sha1F(t, v[2], v[3], v[4])),
                                 Add32(v[5], Sha1K(t))), w[t])
         IN  Sha1Rounds(<<temp, v[1], Rotl32(v[2], 30), v[3], v[4]>>, w, t + 1)

\* the compression of the blocks k.. of the padded message into the state h
RECURSIVE Sha1Compress(_, _, _)
Sha1Compress(h, bytes, k) ==
    IF 64 * (k - 1) >= Len(bytes) THEN h
    ELSE LET v == Sha1Rounds(h, Sha1Schedule(Sha1Block(bytes, k)), 1)
         IN  Sha1Compress([i \in 1..5 |-> Add32(h[i], v[i])], bytes, k + 1)

\* the initial hash value
Sha1H0 == <<<<26437, 8961>>, <<61389, 43913>>, <<39098, 56574>>, <<4146, 21622>>,
            <<50130, 57840>>>>

\* Sha1::digest(msg): the five words of the state as 20 bytes, big-endian
Sha1(msg) ==
    LET h == Sha1Compress(Sha1H0, msg \o Sha1Padding(Len(msg)), 1)
    IN  [i \in 1..SIGNATURE_LEN |->
            LET half == h[(i - 1) \div 4 + 1][((i - 1) % 4) \div 2 + 1]
            IN  IF i % 2 = 1 THEN half \div 256 ELSE half % 256]

\* the xor of two bytes
XorByte(a, b) == XorNib[a \div 16][b \div 16] * 16 + XorNib[a % 16][b % 16]

\* a key of at most one block, filled with zeros to the block
HmacZeroFill(k) == [i \in 1..64 |-> IF i <= Len(k) THEN k[i] ELSE 0]

\* the key of the mac as one block: a key longer than a block is hashed, a
\* shorter one is filled with zeros
HmacKeyBlock(key) == HmacZeroFill(IF Len(key) > 64 THEN Sha1(key) ELSE key)

\* the key block with every byte xored with pad
HmacPad(block, pad) == [i \in 1..64 |-> XorByte(block[i], pad)]

\* the mac of msg under the key block: H(opad || H(ipad || msg))
HmacFinalize(block, msg) == Sha1(HmacPad(block, 92) \o Sha1(HmacPad(block, 54) \o msg))

\* Hmac::<Sha1>::new_varkey(key); mac.update(msg); mac.finalize().into_bytes()
HmacSha1Digest(key, msg) == HmacFinalize(HmacKeyBlock(key), msg)

(*************************************************************************)
(* Configuration: the hook registry and the timeout.                    *)
(*************************************************************************)
\* the secret "s3" of the protected hook
Secret == <<115, 51>>

\* A path is the sequence of its segments: "/secure" is <<"secure">> and
\* "/secure/" is <<"secure", "">>; two paths are the same string exactly when
\* they are the same sequence.
\* Config.hook: path -> Hook
ConfigHook ==
    [p \in {<<"deploy">>, <<"secure">>} |->
        IF p = <<"deploy">>
        THEN [program |-> "echo", args |-> NoneVal, secret |-> NoneVal]
        ELSE [program |-> "deploy.sh", args |-> Some(<<"--now">>), secret |-> Some(Secret)]]

\* Config.timeout, whole seconds; zero means no time limit
Timeouts == {0, MaxTimeout}

(*************************************************************************)
(* Requests the HTTP layer hands to the service.                        *)
(*************************************************************************)
\* the lower-case hex digit of a nibble
HexDigit(n) == IF n < 10 THEN 48 + n ELSE 87 + n

RECURSIVE HexEncode(_)
HexEncode(bytes) ==
    IF bytes = <<>> THEN <<>>
    ELSE <<HexDigit(Head(bytes) \div 16), HexDigit(Head(bytes) % 16)>> \o HexEncode(Tail(bytes))

\* "sha1=" followed by the hex of the digest
Sha1Header(digest) == SHA1_TOKEN \o <<EQ>> \o HexEncode(digest)

\* the digest de ad be ef repeated to SIGNATURE_LEN bytes
DeadBeef == [i \in 1..SIGNATURE_LEN |-> <<222, 173, 190, 239>>[((i - 1) % 4) + 1]]

\* "/deploy", "/secure", "/unknown", "/secure/"
Paths == {<<"deploy">>, <<"secure">>, <<"unknown">>, <<"secure", "">>}

\* request bodies as the chunks the HTTP layer delivers: nothing, "hi" in one
\* chunk, "hi" in two chunks
Bodies == {<<>>, << <<104, 105>> >>, << <<104>>, <<105>> >>}

\* the body of the r-th of several requests to one path: the one byte 'a',
\* 'b', ...
SameBody(r) == << <<96 + r>> >>

\* Hmac<Sha1> under the secret of the hook, tabulated for the bodies of the
\* model: "", "hi", "a", "b", "c"
SecretDigests ==
    (<<>> :> <<215, 211, 102, 64, 245, 202, 81, 175, 97, 233,
               28, 26, 120, 205, 180, 90, 111, 81, 222, 2>>)
    @@ (<<104, 105>> :> <<2, 234, 187, 217, 30, 145, 146, 160, 136, 49,
                          226, 36, 146, 113, 149, 224, 72, 27, 12, 123>>)
    @@ (<<97>> :> <<77, 129, 85, 152, 238, 6, 99, 67, 191, 173,
                    108, 65, 191, 216, 15, 51, 81, 56, 121, 109>>)
    @@ (<<98>> :> <<207, 116, 253, 140, 219, 30, 67, 220, 142, 67,
                    225, 205, 116, 83, 231, 206, 230, 113, 151, 186>>)
    @@ (<<99>> :> <<218, 87, 133, 118, 165, 120, 75, 193, 245, 30,
                    145, 92, 110, 211, 57, 24, 175, 155, 166, 57>>)

\* the table holds what Hmac<Sha1> computes
SecretDigestsComputed ==
    \A m \in DOMAIN SecretDigests : SecretDigests[m] = HmacSha1Digest(Secret, m)

\* Hmac<Sha1> of msg under key: computed, or looked up where it is tabulated
HmacSha1(key, msg) ==
    IF key = Secret /\ msg \in DOMAIN SecretDigests
    THEN SecretDigests[msg]
    ELSE HmacSha1Digest(key, msg)

\* x-hub-signature of a request with the given body: no header, "sha1",
\* "foo=abcd", "sha1=abcd", the digest of the body under Secret, and deadbeef...
Signatures(chunks) ==
    { NoneVal,
      Some(SHA1_TOKEN),
      Some(<<102, 111, 111, EQ, 97, 98, 99, 100>>),
      Some(SHA1_TOKEN \o <<EQ, 97, 98, 99, 100>>),
      Some(Sha1Header(HmacSha1(Secret, Concat(chunks)))),
      Some(Sha1Header(DeadBeef)) }

\* a request: its path, its x-hub-signature header, its body chunks, and
\* whether the body stream fails after the chunks instead of ending
Request(p, s, c, e) == [path |-> p, sig |-> s, chunks |-> c, bodyErr |-> e]

\* every request of the model; a hook without a secret never looks at the
\* header, so two header values are enough for it
AllInputs ==
    UNION { { Request(p, s, c, e) : p \in Paths \ {<<"deploy">>}, s \in Signatures(c),
                                   e \in BOOLEAN }
            \cup { Request(<<"deploy">>, s, c, e) : s \in {NoneVal, Some(SHA1_TOKEN)},
                                                  e \in BOOLEAN } :
            c \in Bodies }

\* the requests of a client that sends no body and no header, to the open
\* hook and to no hook
PlainInputs ==
    { Request(<<"deploy">>, NoneVal, <<>>, FALSE),
      Request(<<"unknown">>, NoneVal, <<>>, FALSE) }

\* the first request of a behaviour is any request, the requests handled
\* next to it are plain ones
RequestInputs(r) == IF r = 1 THEN AllInputs ELSE PlainInputs

\* what cmd.spawn() can yield: Ok(child) or Err(e)
SpawnOutcomes == {"ok", "spawn_err"}

\* a mutant of CmdStdin: the standard input of the command is left as it is
CmdStdinInherit == "inherit"

\* cmd.stdin(Stdio::piped())
CmdStdin == "piped"

\* child.stdin.take() right after the spawn: the child has the write end of
\* its standard input when, and only when, the command asked for a pipe
StdinTake(stdio) == IF stdio = "piped" THEN "open" ELSE "none"

\* io::ErrorKind of a failed pipe operation, as far as the code tells them apart
IoErrors == {"BrokenPipe", "Other"}


(*************************************************************************)
(* State.                                                                *)
(*************************************************************************)
VARIABLES
    hooks,      \* Service.hooks: the hook registry
    timeout,    \* Service.timeout
    now,        \* the clock, in ticks
    request,    \* request[r]: the request r as the HTTP layer delivers it
    response,   \* response[r]: what Service::call returned for r
    pc,         \* pc[r]: where the handling of r stands
    verifier,   \* verifier[r]: the (mac, signature) the task of r captured
    nread,      \* nread[r]: body chunks of r the task has taken from the stream
    vec,        \* vec[r]: the bytes try_fold has accumulated
    child,      \* child[r]: the process spawned for r
    handle,     \* handle[r]: the Child handle of that process
    stdin,      \* stdin[r]: the write end of the process's standard input
    piped,      \* piped[r]: the bytes written into that pipe so far
    closes,     \* closes[r]: how often the write end was closed
    writeErr,   \* writeErr[r]: the error write_all met, if any
    shutErr,    \* shutErr[r]: the error shutdown met, if any
    procs,      \* the processes spawned so far: procs[k] is the request of the k-th
    timer,      \* timer[r]: the deadline of the delay the task created
    kills,      \* kills[r]: kill signals sent to the process
    log,        \* log[r]: the log lines written for r
    header,     \* a header value handed to parse_signature_header
    parsed      \* its result

vars == <<hooks, timeout, now, request, response, pc, verifier, nread, vec, child,
          handle, stdin, piped, closes, writeErr, shutErr, procs, timer, kills, log, header,
          parsed>>

\* the requests of a behaviour
Reqs == DOMAIN pc

NoRequest == [path |-> <<>>, sig |-> NoneVal, chunks |-> <<>>, bodyErr |-> FALSE]
NoResponse == [status |-> 0, body |-> <<>>]
NoVerifier == [some |-> FALSE, key |-> <<>>, signature |-> <<>>]
NoTimer == [set |-> FALSE, deadline |-> 0]
NotParsed == [ok |-> FALSE, err |-> "NotParsed", val |-> <<>>]

\* http::Response::builder().status(s).body(B::default())
Response(s) == [status |-> s, body |-> <<>>]

\* Service::new(config)
ServiceNew(config) == [hooks |-> config.hook, timeout |-> config.timeout]

(*************************************************************************)
(* Helpers of Service::call.                                             *)
(*************************************************************************)
\* a mutant of Lookup: a registry key that is a prefix of the path matches
LookupPrefix(hs, path) ==
    LET ks == {k \in DOMAIN hs : Len(k) <= Len(path) /\ SubSeq(path, 1, Len(k)) = k}
    IN  IF ks = {} THEN NoneVal ELSE Some(hs[CHOOSE k \in ks : TRUE])

\* self.hooks.get(req.uri().path())
Lookup(hs, path) == IF path \in DOMAIN hs THEN Some(hs[path]) ELSE NoneVal

\* a mutant of Authenticate: a missing header is let through
AuthenticateNoHeaderOk(hook, sig) ==
    IF hook.secret.some /\ sig.some
    THEN LET p == parse_signature_header(sig.val)
         IN  IF p.ok
             THEN [status |-> 0,
                   verifier |-> [some |-> TRUE, key |-> hook.secret.val, signature |-> p.val]]
             ELSE IF p.err = "Malformed"
             THEN [status |-> 400, verifier |-> NoVerifier]
             ELSE [status |-> 406, verifier |-> NoVerifier]
    ELSE [status |-> 0, verifier |-> NoVerifier]

\* let verifier = ...: the early returns 400, 406, 401 (status 0: none), or
\* the (mac, signature) pair of a hook with a secret
Authenticate(hook, sig) ==
    IF hook.secret.some
    THEN IF sig.some
         THEN LET p == parse_signature_header(sig.val)
              IN  IF p.ok
                  THEN [status |-> 0,
                        verifier |-> [some |-> TRUE, key |-> hook.secret.val,
                                      signature |-> p.val]]
                  ELSE IF p.err = "Malformed"
                  THEN [status |-> 400, verifier |-> NoVerifier]
                  ELSE [status |-> 406, verifier |-> NoVerifier]
         ELSE [status |-> 401, verifier |-> NoVerifier]
    ELSE [status |-> 0, verifier |-> NoVerifier]

\* a mutant of Accepted: the response of an accepted request is 202
Accepted202 == Response(202)

\* res.body(B::default()): the builder's status was never set, it is 200
Accepted == Response(200)

\* a mutant of SpawnFailure: the failure does not show in the response
SpawnFailureAccepted == Response(200)

\* return res.status(StatusCode::INTERNAL_SERVER_ERROR).body(B::default())
SpawnFailure == Response(500)

\* a mutant of Spawn: the process of an earlier request is used again
SpawnShared(table, r) == IF table = <<>> THEN Append(table, r) ELSE table

\* cmd.spawn() is Ok(child): one more process, spawned for the request r
Spawn(table, r) == Append(table, r)

\* the requests that can arrive as the request r: the one that is queued for
\* r, if there is one, any request of the model otherwise
Arrivals(r) == IF request[r] # NoRequest THEN {request[r]} ELSE RequestInputs(r)

\* Service::call returns without spawning: nothing but the response changes
Return(r, inp, status, lines) ==
    /\ request' = [request EXCEPT ![r] = inp]
    /\ response' = [response EXCEPT ![r] = Response(status)]
    /\ pc' = [pc EXCEPT ![r] = "returned"]
    /\ log' = [log EXCEPT ![r] = lines]
    /\ UNCHANGED <<hooks, procs, timeout, now, verifier, nread, vec, child, handle, stdin,
                   piped, closes, writeErr, shutErr, timer, kills, header, parsed>>

\* Service::call(req), with the outcome `so` of spawning the process, as
\* far as its early returns or, when the process and its pipe are there, as
\* far as tokio::spawn: from there on the task runs side by side with the
\* rest of call
Call(r) ==
    \E inp \in Arrivals(r), so \in SpawnOutcomes :
        /\ pc[r] = "new"
        /\ \A q \in 1..(r - 1) : pc[q] # "new"
        /\ IF ~Lookup(hooks, inp.path).some
           THEN Return(r, inp, 404, <<>>)
           ELSE LET a == Authenticate(Lookup(hooks, inp.path).val, inp.sig)
                IN  IF a.status # 0
                    THEN Return(r, inp, a.status, <<>>)
                    ELSE CASE so = "spawn_err" ->
                                Return(r, inp, SpawnFailure.status,
                                       <<"Executing a hook", "Failed to execute command">>)
                           [] so = "ok" /\ StdinTake(CmdStdin) = "none" ->
                                /\ request' = [request EXCEPT ![r] = inp]
                                /\ response' = [response EXCEPT ![r] = SpawnFailure]
                                /\ pc' = [pc EXCEPT ![r] = "returned"]
                                /\ procs' = Spawn(procs, r)
                                /\ child' = [child EXCEPT ![r] = "running"]
                                /\ handle' = [handle EXCEPT ![r] = "dropped"]
                                /\ log' = [log EXCEPT ![r] =
                                        <<"Executing a hook", "Failed to open stdin of child">>]
                                /\ UNCHANGED <<hooks, timeout, now, verifier, nread, vec,
                                               stdin, piped, closes, writeErr, shutErr, timer, kills,
                                               header, parsed>>
                           [] so = "ok" /\ StdinTake(CmdStdin) # "none" ->
                                /\ request' = [request EXCEPT ![r] = inp]
                                /\ pc' = [pc EXCEPT ![r] = "fold"]
                                /\ verifier' = [verifier EXCEPT ![r] = a.verifier]
                                /\ procs' = Spawn(procs, r)
                                /\ child' = [child EXCEPT ![r] = "running"]
                                /\ handle' = [handle EXCEPT ![r] = "owned"]
                                /\ stdin' = [stdin EXCEPT ![r] = StdinTake(CmdStdin)]
                                /\ log' = [log EXCEPT ![r] = <<"Executing a hook">>]
                                /\ UNCHANGED <<hooks, timeout, now, response, nread, vec, piped,
                                               closes, writeErr, shutErr, timer, kills, header, parsed>>

\* res.body(B::default()).unwrap(): call returns the response, after it has
\* handed the task to the runtime, which may have run the task on another
\* thread since
CallReturn(r) ==
    /\ pc[r] \notin {"new", "returned"}
    /\ response[r] = NoResponse
    /\ response' = [response EXCEPT ![r] = Accepted]
    /\ UNCHANGED <<hooks, procs, timeout, now, request, pc, verifier, nread, vec, child,
                   handle, stdin, piped, closes, writeErr, shutErr, timer, kills, log,
                   header, parsed>>

(*************************************************************************)
(* The task handed to tokio::spawn.                                      *)
(*************************************************************************)
\* a mutant of Extend: the chunk is put in front of the accumulated bytes
ExtendFront(v, chunk) == chunk \o v

\* vec.extend(chunk.bytes())
Extend(v, chunk) == v \o chunk

\* a mutant of SignatureOk: the digests are not compared
SignatureOkUnchecked(ver, body) == TRUE

\* if let Some((mac, signature)) = verifier { ... *code != signature ... }
SignatureOk(ver, body) == ver.some => HmacSha1(ver.key, body) = ver.signature

\* a mutant of MakeTimer: a delay is created for a zero timeout too
MakeTimerAlways(t, clock) == [set |-> TRUE, deadline |-> clock + t]

\* let timeout = if timeout == 0 { pending() } else { delay_for(timeout) }
MakeTimer(t, clock) ==
    IF t = 0 THEN NoTimer ELSE [set |-> TRUE, deadline |-> clock + t]

\* a mutant of TimerStart: the delay is counted from the start of the clock
TimerStartAtZero(clock) == clock - clock

\* delay_for counts from the moment it is called
TimerStart(clock) == clock

\* a mutant of Elapsed: the delay never resolves
ElapsedNever(tm, clock) == FALSE

\* the delay has elapsed
Elapsed(tm, clock) == tm.set /\ clock >= tm.deadline

\* the value `stdin` goes out of scope: the write end is closed
DropStdin(r) ==
    /\ stdin' = [stdin EXCEPT ![r] = "closed"]
    /\ closes' = [closes EXCEPT ![r] = @ + 1]

\* the value `child` goes out of scope without a wait
Retire(h) == "dropped"

\* a mutant of TaskReturn: the write end is not closed on an early return
TaskReturnLeak(r, line) ==
    /\ pc' = [pc EXCEPT ![r] = "done"]
    /\ UNCHANGED <<stdin, closes>>
    /\ handle' = [handle EXCEPT ![r] = Retire(@)]
    /\ log' = [log EXCEPT ![r] = Append(@, line)]

\* `return` inside the task: stdin and child are dropped, nothing else happens
TaskReturn(r, line) ==
    /\ pc' = [pc EXCEPT ![r] = "done"]
    /\ DropStdin(r)
    /\ handle' = [handle EXCEPT ![r] = Retire(@)]
    /\ log' = [log EXCEPT ![r] = Append(@, line)]

\* a mutant of StreamEnded: the fold is left before the stream has ended
StreamEndedAnytime(r) == TRUE

\* the body stream has yielded its last chunk: body.await resolves
StreamEnded(r) == nread[r] = Len(request[r].chunks)

\* body.try_fold: the stream yields the next chunk
FoldChunk(r) ==
    /\ pc[r] = "fold"
    /\ nread[r] < Len(request[r].chunks)
    /\ nread' = [nread EXCEPT ![r] = @ + 1]
    /\ vec' = [vec EXCEPT ![r] = Extend(@, request[r].chunks[nread[r] + 1])]
    /\ UNCHANGED <<hooks, procs, timeout, now, request, response, pc, verifier, child, handle,
                   stdin, piped, closes, writeErr, shutErr, timer, kills, log, header, parsed>>

\* body.await is Err(e): the stream fails after its chunks
FoldErr(r) ==
    /\ pc[r] = "fold"
    /\ StreamEnded(r)
    /\ request[r].bodyErr
    /\ TaskReturn(r, "Failed to read request body")
    /\ UNCHANGED <<hooks, procs, timeout, now, request, response, verifier, nread, vec, child,
                   piped, writeErr, shutErr, timer, kills, header, parsed>>

\* body.await is Ok(body): the digest is compared, then write_all starts;
\* write_all of an empty body is Ok at once
FoldEnd(r) ==
    /\ pc[r] = "fold"
    /\ StreamEnded(r)
    /\ ~request[r].bodyErr
    /\ IF SignatureOk(verifier[r], vec[r])
       THEN /\ pc' = [pc EXCEPT ![r] = IF vec[r] = <<>> THEN "shutdown" ELSE "write"]
            /\ UNCHANGED <<stdin, closes, handle, log>>
       ELSE TaskReturn(r, "Signature mismatch")
    /\ UNCHANGED <<hooks, procs, timeout, now, request, response, verifier, nread, vec, child,
                   piped, writeErr, shutErr, timer, kills, header, parsed>>

\* a mutant of Writing: bytes are written as the chunks arrive
WritingAsRead(r) == pc[r] \in {"fold", "write"}

\* the task is at stdin.write_all(&body).await: the body is complete and its
\* digest, if one was asked for, is the right one
Writing(r) == pc[r] = "write"

\* stdin.write_all(&body): one write of n of the remaining bytes succeeds;
\* write_all is Ok when the last byte is written
Write(r) ==
    /\ Writing(r)
    /\ \E n \in 1..(Len(vec[r]) - Len(piped[r])) :
         /\ piped' = [piped EXCEPT ![r] = @ \o SubSeq(vec[r], Len(@) + 1, Len(@) + n)]
         /\ pc' = [pc EXCEPT ![r] =
                IF Len(piped[r]) + n = Len(vec[r]) THEN "shutdown" ELSE "write"]
    /\ UNCHANGED <<hooks, procs, timeout, now, request, response, verifier, nread, vec, child,
                   handle, stdin, closes, writeErr, shutErr, timer, kills, log, header, parsed>>

\* a mutant of Benign: a broken pipe is an error like the others
BenignNever(e) == FALSE

\* e.kind() != io::ErrorKind::BrokenPipe is false: the error is passed over
Benign(e) == e = "BrokenPipe"

\* stdin.write_all(&body) is Err(e): a write of the remaining bytes fails
WriteErr(r) ==
    /\ pc[r] = "write"
    /\ \E e \in IoErrors :
         /\ writeErr' = [writeErr EXCEPT ![r] = e]
         /\ IF Benign(e)
            THEN /\ pc' = [pc EXCEPT ![r] = "shutdown"]
                 /\ UNCHANGED <<stdin, closes, handle, log>>
            ELSE TaskReturn(r, "Failed to write to the pipe")
    /\ UNCHANGED <<hooks, procs, shutErr, timeout, now, request, response, verifier, nread, vec, child,
                   piped, timer, kills, header, parsed>>

\* stdin.shutdown() is Ok, or fails with BrokenPipe, which is ignored:
\* drop(stdin), the timer is made and the select begins
Shutdown(r) ==
    /\ pc[r] = "shutdown"
    /\ \E e \in {None} \cup {x \in IoErrors : Benign(x)} :
         shutErr' = [shutErr EXCEPT ![r] = e]
    /\ DropStdin(r)
    /\ timer' = [timer EXCEPT ![r] = MakeTimer(timeout, TimerStart(now))]
    /\ pc' = [pc EXCEPT ![r] = "select"]
    /\ UNCHANGED <<hooks, procs, timeout, now, request, response, verifier, nread, vec, child,
                   handle, piped, writeErr, kills, log, header, parsed>>

\* stdin.shutdown() fails with another error
ShutdownErr(r) ==
    /\ pc[r] = "shutdown"
    /\ \E e \in {x \in IoErrors : ~Benign(x)} : shutErr' = [shutErr EXCEPT ![r] = e]
    /\ TaskReturn(r, "Failed to close the pipe")
    /\ UNCHANGED <<hooks, procs, timeout, now, request, response, verifier, nread, vec, child,
                   piped, writeErr, timer, kills, header, parsed>>

\* a mutant of Race: the timer is polled first
RaceTimerFirst(c, tm, clock) ==
    IF Elapsed(tm, clock) THEN "Right" ELSE IF c = "exited" THEN "Left" ELSE "Pending"

\* future::select(child, timeout): the first future, the child, is polled
\* first, and the second one only when the first is pending
Race(c, tm, clock) ==
    IF c = "exited" THEN "Left" ELSE IF Elapsed(tm, clock) THEN "Right" ELSE "Pending"

\* select(child, timeout) is Left((Ok(status), _)): the process has exited
SelectExit(r) ==
    /\ pc[r] = "select"
    /\ Race(child[r], timer[r], now) = "Left"
    /\ handle' = [handle EXCEPT ![r] = "waited"]
    /\ pc' = [pc EXCEPT ![r] = "done"]
    /\ log' = [log EXCEPT ![r] = Append(@, "Child exited")]
    /\ UNCHANGED <<hooks, procs, timeout, now, request, response, verifier, nread, vec, child,
                   stdin, piped, closes, writeErr, shutErr, timer, kills, header, parsed>>

\* select(child, timeout) is Left((Err(e), _)): waiting for the process
\* failed; the wait of a process fails when the process is gone already
SelectWaitErr(r) ==
    /\ pc[r] = "select"
    /\ Race(child[r], timer[r], now) = "Left"
    /\ handle' = [handle EXCEPT ![r] = "wait_failed"]
    /\ pc' = [pc EXCEPT ![r] = "done"]
    /\ log' = [log EXCEPT ![r] = Append(@, "Error waiting for child")]
    /\ UNCHANGED <<hooks, procs, timeout, now, request, response, verifier, nread, vec, child,
                   stdin, piped, closes, writeErr, shutErr, timer, kills, header, parsed>>

\* select(child, timeout) is Right((_, child)): the child was polled first
\* and was still running, the delay has elapsed; the timeout is logged
SelectTimeout(r) ==
    /\ pc[r] = "select"
    /\ Race(child[r], timer[r], now) = "Right"
    /\ pc' = [pc EXCEPT ![r] = "kill"]
    /\ log' = [log EXCEPT ![r] = Append(@, "Timed out waiting for child")]
    /\ UNCHANGED <<hooks, procs, timeout, now, request, response, verifier, nread, vec,
                   child, handle, stdin, piped, closes, writeErr, shutErr, timer, kills,
                   header, parsed>>

\* let _ = child.kill(): the signal is sent to the process, which may have
\* exited since the select polled it; then child is dropped and the task ends
Kill(r) ==
    /\ pc[r] = "kill"
    /\ kills' = [kills EXCEPT ![r] = @ + 1]
    /\ child' = [child EXCEPT ![r] = IF @ = "running" THEN "killed" ELSE @]
    /\ handle' = [handle EXCEPT ![r] = Retire(@)]
    /\ pc' = [pc EXCEPT ![r] = "done"]
    /\ UNCHANGED <<hooks, procs, timeout, now, request, response, verifier, nread, vec, stdin,
                   piped, closes, writeErr, shutErr, timer, log, header, parsed>>

(*************************************************************************)
(* The environment.                                                      *)
(*************************************************************************)
\* the spawned process exits on its own
ProcExit(r) ==
    /\ child[r] = "running"
    /\ child' = [child EXCEPT ![r] = "exited"]
    /\ UNCHANGED <<hooks, procs, timeout, now, request, response, pc, verifier, nread, vec,
                   handle, stdin, piped, closes, writeErr, shutErr, timer, kills, log, header, parsed>>

\* how far the clock is watched when no delay is pending: as far as the
\* configured timeout, as far as the longest one when there is no time limit
Horizon == IF timeout = 0 THEN MaxTimeout ELSE timeout

\* the clock advances; it is only watched while some task is under way, and
\* no further than the horizon, or than the delay some task is waiting for
Tick ==
    /\ \/ now < Horizon
       \/ \E r \in Reqs : pc[r] = "select" /\ timer[r].set /\ now < timer[r].deadline
    /\ \E r \in Reqs : pc[r] \in {"fold", "write", "shutdown", "select", "kill"}
    /\ now' = now + 1
    /\ UNCHANGED <<hooks, procs, timeout, request, response, pc, verifier, nread, vec, child,
                   handle, stdin, piped, closes, writeErr, shutErr, timer, kills, log, header, parsed>>

(*************************************************************************)
(* The service.                                                          *)
(*************************************************************************)
Init ==
    /\ \E t \in Timeouts :
         LET service == ServiceNew([hook |-> ConfigHook, timeout |-> t])
         IN  hooks = service.hooks /\ timeout = service.timeout
    /\ now = 0
    /\ request = [r \in 1..MaxReq |-> NoRequest]
    /\ response = [r \in 1..MaxReq |-> NoResponse]
    /\ pc = [r \in 1..MaxReq |-> "new"]
    /\ verifier = [r \in 1..MaxReq |-> NoVerifier]
    /\ nread = [r \in 1..MaxReq |-> 0]
    /\ vec = [r \in 1..MaxReq |-> <<>>]
    /\ child = [r \in 1..MaxReq |-> "none"]
    /\ handle = [r \in 1..MaxReq |-> "none"]
    /\ stdin = [r \in 1..MaxReq |-> "none"]
    /\ piped = [r \in 1..MaxReq |-> <<>>]
    /\ closes = [r \in 1..MaxReq |-> 0]
    /\ writeErr = [r \in 1..MaxReq |-> None]
    /\ shutErr = [r \in 1..MaxReq |-> None]
    /\ procs = <<>>
    /\ timer = [r \in 1..MaxReq |-> NoTimer]
    /\ kills = [r \in 1..MaxReq |-> 0]
    /\ log = [r \in 1..MaxReq |-> <<>>]
    /\ header = <<>>
    /\ parsed = NotParsed

Next ==
    \/ \E r \in Reqs : Call(r)
    \/ \E r \in Reqs : CallReturn(r)
    \/ \E r \in Reqs : FoldChunk(r)
    \/ \E r \in Reqs : FoldErr(r)
    \/ \E r \in Reqs : FoldEnd(r)
    \/ \E r \in Reqs : Write(r)
    \/ \E r \in Reqs : WriteErr(r)
    \/ \E r \in Reqs : Shutdown(r)
    \/ \E r \in Reqs : ShutdownErr(r)
    \/ \E r \in Reqs : SelectExit(r)
    \/ \E r \in Reqs : SelectWaitErr(r)
    \/ \E r \in Reqs : SelectTimeout(r)
    \/ \E r \in Reqs : Kill(r)
    \/ \E r \in Reqs : ProcExit(r)
    \/ Tick

Spec == Init /\ [][Next]_vars

(*************************************************************************)
(* One request under fair scheduling: the runtime polls a task that can  *)
(* go on, the body stream ends or fails, a write to the pipe completes   *)
(* or fails, and time passes.  Nothing makes the process exit.           *)
(*************************************************************************)
InitTask ==
    /\ \E t \in Timeouts :
         LET service == ServiceNew([hook |-> ConfigHook, timeout |-> t])
         IN  hooks = service.hooks /\ timeout = service.timeout
    /\ now = 0
    /\ request = [r \in {1} |-> NoRequest]
    /\ response = [r \in {1} |-> NoResponse]
    /\ pc = [r \in {1} |-> "new"]
    /\ verifier = [r \in {1} |-> NoVerifier]
    /\ nread = [r \in {1} |-> 0]
    /\ vec = [r \in {1} |-> <<>>]
    /\ child = [r \in {1} |-> "none"]
    /\ handle = [r \in {1} |-> "none"]
    /\ stdin = [r \in {1} |-> "none"]
    /\ piped = [r \in {1} |-> <<>>]
    /\ closes = [r \in {1} |-> 0]
    /\ writeErr = [r \in {1} |-> None]
    /\ shutErr = [r \in {1} |-> None]
    /\ procs = <<>>
    /\ timer = [r \in {1} |-> NoTimer]
    /\ kills = [r \in {1} |-> 0]
    /\ log = [r \in {1} |-> <<>>]
    /\ header = <<>>
    /\ parsed = NotParsed

\* the task of r is polled whenever it can go on
TaskFair(r) ==
    /\ WF_vars(FoldChunk(r))
    /\ WF_vars(FoldErr(r) \/ FoldEnd(r))
    /\ WF_vars(Write(r) \/ WriteErr(r))
    /\ WF_vars(Shutdown(r) \/ ShutdownErr(r))
    /\ WF_vars(SelectExit(r) \/ SelectWaitErr(r))
    /\ WF_vars(SelectTimeout(r))
    /\ WF_vars(Kill(r))

SpecFair == InitTask /\ [][Next]_vars /\ TaskFair(1) /\ WF_vars(Tick)

(*************************************************************************)
(* Several requests to one hook path, handled side by side by a service  *)
(* without time limit: no delay is ever made, so that the clock plays no *)
(* part and the timeout branch of the select is never taken.             *)
(*************************************************************************)
\* the r-th request to the path p, signed if the hook has a secret; the body
\* stream of the last of them ends, or fails after the chunk
SameRequests(p, r) ==
    { Request(p,
              IF ConfigHook[p].secret.some
              THEN Some(Sha1Header(HmacSha1(ConfigHook[p].secret.val, Concat(SameBody(r)))))
              ELSE NoneVal,
              SameBody(r), e) : e \in IF r = MaxSame THEN BOOLEAN ELSE {FALSE} }

InitMany ==
    /\ hooks = ServiceNew([hook |-> ConfigHook, timeout |-> 0]).hooks
    /\ timeout = ServiceNew([hook |-> ConfigHook, timeout |-> 0]).timeout
    /\ now = 0
    /\ \E p \in DOMAIN ConfigHook :
         request \in { f \in [1..MaxSame -> UNION {SameRequests(p, r) : r \in 1..MaxSame}] :
                          \A r \in 1..MaxSame : f[r] \in SameRequests(p, r) }
    /\ response = [r \in 1..MaxSame |-> NoResponse]
    /\ pc = [r \in 1..MaxSame |-> "new"]
    /\ verifier = [r \in 1..MaxSame |-> NoVerifier]
    /\ nread = [r \in 1..MaxSame |-> 0]
    /\ vec = [r \in 1..MaxSame |-> <<>>]
    /\ child = [r \in 1..MaxSame |-> "none"]
    /\ handle = [r \in 1..MaxSame |-> "none"]
    /\ stdin = [r \in 1..MaxSame |-> "none"]
    /\ piped = [r \in 1..MaxSame |-> <<>>]
    /\ closes = [r \in 1..MaxSame |-> 0]
    /\ writeErr = [r \in 1..MaxSame |-> None]
    /\ shutErr = [r \in 1..MaxSame |-> None]
    /\ procs = <<>>
    /\ timer = [r \in 1..MaxSame |-> NoTimer]
    /\ kills = [r \in 1..MaxSame |-> 0]
    /\ log = [r \in 1..MaxSame |-> <<>>]
    /\ header = <<>>
    /\ parsed = NotParsed

NextMany ==
    \/ \E r \in Reqs : Call(r)
    \/ \E r \in Reqs : CallReturn(r)
    \/ \E r \in Reqs : FoldChunk(r)
    \/ \E r \in Reqs : FoldErr(r)
    \/ \E r \in Reqs : FoldEnd(r)
    \/ \E r \in Reqs : Write(r)
    \/ \E r \in Reqs : WriteErr(r)
    \/ \E r \in Reqs : Shutdown(r)
    \/ \E r \in Reqs : ShutdownErr(r)
    \/ \E r \in Reqs : SelectExit(r)
    \/ \E r \in Reqs : SelectWaitErr(r)
    \/ \E r \in Reqs : ProcExit(r)

SpecMany == InitMany /\ [][NextMany]_vars

(*************************************************************************)
(* parse_signature_header on its own: header values are handed to it    *)
(* one after the other.                                                  *)
(*************************************************************************)
\* k copies of the byte b
Repeat(b, k) == [i \in 1..k |-> b]

\* the hex of deadbeef..., in upper case
UpperDeadBeef == [i \in 1..(2 * SIGNATURE_LEN) |-> <<68, 69, 65, 68, 66, 69, 69, 70>>[((i - 1) % 8) + 1]]

\* what may stand before the '=': "", "sha1", "sha", "sha256", "SHA1", "foo", "sha1 "
Tokens ==
    { <<>>, SHA1_TOKEN, <<115, 104, 97>>, <<115, 104, 97, 50, 53, 54>>, <<83, 72, 65, 49>>,
      <<102, 111, 111>>, SHA1_TOKEN \o <<32>> }

\* what may stand after the '=': hex of every length around that of a digest,
\* in lower, upper and mixed case, with a byte that is no hex digit, with a '='
Digests ==
    { Repeat(97, k) : k \in {0, 4, SIGNATURE_LEN} }
    \cup { Repeat(100, k) : k \in (2 * SIGNATURE_LEN - 2)..(2 * SIGNATURE_LEN + MaxExtra) }
    \cup { HexEncode(DeadBeef), UpperDeadBeef,
           SubSeq(UpperDeadBeef, 1, SIGNATURE_LEN) \o Repeat(57, SIGNATURE_LEN),
           Repeat(103, 2 * SIGNATURE_LEN),
           Repeat(48, 2 * SIGNATURE_LEN - 1) \o <<103>>,
           <<47>> \o Repeat(48, 2 * SIGNATURE_LEN - 1),
           Repeat(102, SIGNATURE_LEN) \o <<EQ>> \o Repeat(102, SIGNATURE_LEN - 1),
           HexEncode(DeadBeef) \o <<EQ>> }

\* the header values of the model
ParseHeaders ==
    { t \o <<EQ>> \o d : t \in Tokens, d \in Digests }
    \cup Tokens
    \cup { SHA1_TOKEN \o HexEncode(DeadBeef), HexEncode(DeadBeef) }

\* parse_signature_header(v.as_bytes())
ParseHeader ==
    /\ parsed = NotParsed
    /\ parsed' = parse_signature_header(header)
    /\ UNCHANGED <<hooks, procs, timeout, now, request, response, pc, verifier, nread, vec, child,
                   handle, stdin, piped, closes, writeErr, shutErr, timer, kills, log, header>>

\* the next header value arrives
NextHeader ==
    /\ parsed # NotParsed
    /\ header' \in ParseHeaders
    /\ parsed' = NotParsed
    /\ UNCHANGED <<hooks, procs, timeout, now, request, response, pc, verifier, nread, vec, child,
                   handle, stdin, piped, closes, writeErr, shutErr, timer, kills, log>>

InitParse ==
    /\ hooks = ConfigHook
    /\ timeout = 0
    /\ now = 0
    /\ request = [r \in 1..MaxReq |-> NoRequest]
    /\ response = [r \in 1..MaxReq |-> NoResponse]
    /\ pc = [r \in 1..MaxReq |-> "new"]
    /\ verifier = [r \in 1..MaxReq |-> NoVerifier]
    /\ nread = [r \in 1..MaxReq |-> 0]
    /\ vec = [r \in 1..MaxReq |-> <<>>]
    /\ child = [r \in 1..MaxReq |-> "none"]
    /\ handle = [r \in 1..MaxReq |-> "none"]
    /\ stdin = [r \in 1..MaxReq |-> "none"]
    /\ piped = [r \in 1..MaxReq |-> <<>>]
    /\ closes = [r \in 1..MaxReq |-> 0]
    /\ writeErr = [r \in 1..MaxReq |-> None]
    /\ shutErr = [r \in 1..MaxReq |-> None]
    /\ procs = <<>>
    /\ timer = [r \in 1..MaxReq |-> NoTimer]
    /\ kills = [r \in 1..MaxReq |-> 0]
    /\ log = [r \in 1..MaxReq |-> <<>>]
    /\ header \in ParseHeaders
    /\ parsed = NotParsed

NextParse == ParseHeader \/ NextHeader

SpecParse == InitParse /\ [][NextParse]_vars

(*************************************************************************)
(* Vocabulary of the properties.                                         *)
(*************************************************************************)
\* the bytes 0-9, a-f, A-F
HexDigits == (48..57) \cup (97..102) \cup (65..70)

\* the class of a header value: "Malformed" without '=', "UnknownAlgorithm"
\* when the bytes before the first '=' are not sha1, "WellFormed" when they
\* are and 2 * SIGNATURE_LEN hex digits follow, "Malformed" otherwise
HeaderClass(h) ==
    LET eqs == {i \in 1..Len(h) : h[i] = 61}
    IN  IF eqs = {} THEN "Malformed"
        ELSE LET first == CHOOSE i \in eqs : \A j \in eqs : i <= j
                 token == [k \in 1..(first - 1) |-> h[k]]
                 rest == [k \in 1..(Len(h) - first) |-> h[first + k]]
             IN  IF token # <<115, 104, 97, 49>> THEN "UnknownAlgorithm"
                 ELSE IF Len(rest) = 40 /\ \A k \in 1..40 : rest[k] \in HexDigits
                 THEN "WellFormed"
                 ELSE "Malformed"

\* the header values the requests of the model carry, each with its class
SentHeaders == {i.sig.val : i \in {j \in AllInputs \cup PlainInputs : j.sig.some}}
ClassOf == [h \in SentHeaders |-> HeaderClass(h)]

\* the header that carries the digest of a body under the secret of the
\* protected hook
SignedHeader == [c \in Bodies |-> Sha1Header(HmacSha1(Secret, Concat(c)))]

\* the request r has been handed to Service::call
Called(r) == pc[r] # "new"

\* Service::call has returned its response for r
Responded(r) == response[r] # NoResponse

\* the path of r is a key of the registry
Matches(r) == request[r].path \in DOMAIN hooks

\* r matches a hook that has a secret
Protected(r) == Matches(r) /\ hooks[request[r].path].secret.some

\* r passes the synchronous decision: a hook without a secret, or a hook with
\* a secret and a well-formed sha1 header
Accepts(r) ==
    /\ Matches(r)
    /\ Protected(r) => (request[r].sig.some /\ ClassOf[request[r].sig.val] = "WellFormed")

\* nothing was done for r beyond the response
Untouched(r) ==
    /\ pc[r] = "returned"
    /\ child[r] = "none" /\ handle[r] = "none" /\ stdin[r] = "none"
    /\ nread[r] = 0 /\ vec[r] = <<>> /\ piped[r] = <<>>
    /\ ~timer[r].set /\ kills[r] = 0

\* the log of r holds the line
Logged(r, line) == \E i \in 1..Len(log[r]) : log[r][i] = line

(*************************************************************************)
(* Properties.                                                           *)
(*************************************************************************)
\* C1: a request whose path is not a key of the registry is answered 404, and
\* no process is spawned, no body chunk is read and no task is started for it.
C1_UnknownPath404 ==
    \A r \in Reqs :
        (Called(r) /\ ~Matches(r)) => (response[r] = Response(404) /\ Untouched(r))

\* C1 witness: "/secure/" with a signature and a body got 404.
C1_Witness ==
    \E r \in Reqs :
        /\ request[r].path = <<"secure", "">>
        /\ request[r].sig.some /\ ClassOf[request[r].sig.val] = "WellFormed"
        /\ request[r].chunks # <<>>
        /\ response[r].status = 404

\* C2: for a hook with a secret, a missing header is answered 401, a malformed
\* one 400, one with an unsupported algorithm 406; in the three cases no
\* process is spawned, no body chunk is read and no task is started.
C2_HeaderRejected ==
    \A r \in Reqs :
        (Called(r) /\ Protected(r)) =>
            LET sig == request[r].sig
            IN  /\ ~sig.some => (response[r] = Response(401) /\ Untouched(r))
                /\ (sig.some /\ ClassOf[sig.val] = "Malformed") =>
                        (response[r] = Response(400) /\ Untouched(r))
                /\ (sig.some /\ ClassOf[sig.val] = "UnknownAlgorithm") =>
                        (response[r] = Response(406) /\ Untouched(r))

\* C2 witness: a request to the protected hook with the header foo=abcd got 406.
C2_Witness ==
    \E r \in Reqs :
        /\ Protected(r)
        /\ request[r].sig = Some(<<102, 111, 111, 61, 97, 98, 99, 100>>)
        /\ request[r].chunks # <<>>
        /\ response[r].status = 406

\* C3: parse_signature_header splits at the first '='; without '=' the value
\* is Malformed; with a token other than sha1 it is UnknownAlgorithm whatever
\* follows; with sha1 it is accepted exactly when hex of SIGNATURE_LEN bytes
\* follows, and is Malformed otherwise.
C3_ParseClassifies ==
    parsed # NotParsed =>
        LET class == HeaderClass(header)
        IN  /\ class = "Malformed" => (~parsed.ok /\ parsed.err = "Malformed")
            /\ class = "UnknownAlgorithm" => (~parsed.ok /\ parsed.err = "UnknownAlgorithm")
            /\ class = "WellFormed" => (parsed.ok /\ Len(parsed.val) = 20)

\* C3 witness: a value whose token is not sha1 and whose digest part is no hex
\* was classified UnknownAlgorithm.
C3_Witness ==
    /\ parsed.err = "UnknownAlgorithm"
    /\ \E i \in 1..Len(header) : header[i] = 103
    /\ \E i \in 1..Len(header) : header[i] = 61

\* the header of r carries the digest of its body under the hook's secret
GoodDigest(r) ==
    /\ Protected(r)
    /\ request[r].sig = Some(SignedHeader[request[r].chunks])

\* the header of r is well-formed and carries another digest
WrongDigest(r) ==
    /\ Protected(r)
    /\ request[r].sig.some
    /\ ClassOf[request[r].sig.val] = "WellFormed"
    /\ ~GoodDigest(r)

\* C4 as stated: every request that passes the synchronous decision is
\* answered 200, and the answer is there before a chunk of the body is read.
C4_Original ==
    \A r \in Reqs :
        (Called(r) /\ Accepts(r)) =>
            /\ Responded(r) => response[r] = Response(200)
            /\ nread[r] > 0 => Responded(r)

\* C4, amended: for a request that passes the synchronous decision and whose
\* process is spawned with its standard-input pipe, Service::call answers 200
\* with an empty body; it makes the answer without reading or awaiting any
\* chunk of the body, so the answer can be made in every state of the task,
\* though the task, once handed to the runtime, may have read chunks by then;
\* once made, the answer is never changed, whatever the task meets.  When the
\* process cannot be spawned, or its pipe cannot be obtained, the answer is
\* 500.
C4_Accepted200 ==
    /\ [](\A r \in Reqs :
            (Called(r) /\ Accepts(r)) =>
                IF stdin[r] # "none"
                THEN /\ response[r] \in {NoResponse, [status |-> 200, body |-> <<>>]}
                     /\ ~Responded(r) => ENABLED CallReturn(r)
                ELSE response[r] = [status |-> 500, body |-> <<>>] /\ pc[r] = "returned")
    /\ [][\A r \in Reqs : Responded(r) => response'[r] = response[r]]_vars

\* C4 witness: the task of an accepted request ended on a digest mismatch and
\* the response is still 200.
C4_Witness ==
    \E r \in Reqs :
        /\ Accepts(r)
        /\ pc[r] = "done"
        /\ Logged(r, "Signature mismatch")
        /\ response[r] = [status |-> 200, body |-> <<>>]

\* C5: for a hook without a secret, and for a hook with a secret and the
\* right digest, when the body ends without error and no write fails, the
\* bytes written to the pipe are the body chunks in arrival order, and the
\* pipe is closed after the last of them: from the end of the writes on, the
\* pipe holds exactly the body and is closed.
C5_BodyForwarded ==
    \A r \in Reqs :
        ( /\ pc[r] \in {"select", "done"}
          /\ Matches(r)
          /\ ~Protected(r) \/ GoodDigest(r)
          /\ ~request[r].bodyErr
          /\ writeErr[r] = None ) =>
            (piped[r] = Concat(request[r].chunks) /\ stdin[r] = "closed")

\* C5 witness: a signed body of two chunks was written and the pipe closed.
C5_Witness ==
    \E r \in Reqs :
        /\ GoodDigest(r)
        /\ Len(request[r].chunks) = 2
        /\ pc[r] = "select"
        /\ piped[r] = <<104, 105>>
        /\ stdin[r] = "closed"

\* C6: for a hook with a secret and a well-formed header with the wrong
\* digest, the process is spawned all the same, no body byte is ever written
\* to its pipe, and the pipe is closed once the mismatch is found.
C6_MismatchNoBytes ==
    \A r \in Reqs :
        (WrongDigest(r) /\ Called(r) /\ response[r] # SpawnFailure) =>
            /\ child[r] # "none"
            /\ piped[r] = <<>>
            /\ pc[r] \in {"fold", "done"}
            /\ pc[r] = "done" => stdin[r] = "closed"

\* C6 witness: the mismatch was found for a body of two bytes; the process runs.
C6_Witness ==
    \E r \in Reqs :
        /\ WrongDigest(r)
        /\ vec[r] = <<104, 105>>
        /\ Logged(r, "Signature mismatch")
        /\ child[r] = "running"
        /\ stdin[r] = "closed"

\* C7: after a digest mismatch the task still supervises the process: it does
\* not end before it has seen the process exit or has killed it.
C7_SupervisedAfterMismatch ==
    \A r \in Reqs :
        (pc[r] = "done" /\ Logged(r, "Signature mismatch")) =>
            (handle[r] \in {"waited", "wait_failed"} \/ kills[r] > 0)

\* C8: with a zero timeout no kill is ever issued and no timer is made; a task
\* that reaches the select ends only by observing the exit of the process.
C8_ZeroTimeoutNoKill ==
    timeout = 0 =>
        \A r \in Reqs :
            /\ kills[r] = 0
            /\ child[r] # "killed"
            /\ ~timer[r].set
            /\ ~Logged(r, "Timed out waiting for child")

\* C8 witness: zero timeout, the task is in the select, the process has been
\* running for as long as the longest configured timeout.
C8_Witness ==
    /\ timeout = 0
    /\ \E r \in Reqs :
         /\ pc[r] = "select"
         /\ child[r] = "running"
         /\ now >= MaxTimeout

\* C9: with a non-zero timeout T a spawned process that is still running at T
\* is sent a termination signal.  Only the task of a request signals its
\* process, so no task may end and leave the process running unsignalled:
\* such a process is still running at T, whatever T is counted from, and
\* nothing is left to signal it.
C9_RunningAtTKilled ==
    \A r \in Reqs :
        (timeout > 0 /\ pc[r] = "done" /\ child[r] = "running") => kills[r] > 0

\* C10: when the timer resolves before the exit of the process is observed,
\* the task sends the forced termination and then waits on the handle before
\* it ends: no handle is retired after a kill without a wait.
C10_KillThenWait ==
    \A r \in Reqs : (kills[r] > 0 /\ pc[r] = "done") => handle[r] = "waited"

\* the last line of the log of r
LastLog(r) == IF log[r] = <<>> THEN "" ELSE log[r][Len(log[r])]

\* the select of r took the exit branch
ExitBranch(r) == handle[r] \in {"waited", "wait_failed"}

\* C11 as stated: when the process has exited at the moment the race is
\* evaluated the timeout branch is not taken, and a process that has exited
\* is never sent a kill.
C11_Original ==
    \A r \in Reqs :
        /\ (pc[r] = "select" /\ child[r] = "exited") => ~ENABLED SelectTimeout(r)
        /\ child[r] = "exited" => kills[r] = 0

\* C11, amended: when the process has exited at the moment the race is
\* evaluated, the exit branch is taken whether the timer is ready or not: the
\* exit outcome is logged and no kill is issued.  A kill is issued only by a
\* task whose race found the process still running and the timer elapsed; it
\* can reach a process that exited after the race was evaluated.
C11_ExitBranchFirst ==
    \A r \in Reqs :
        /\ (pc[r] = "select" /\ child[r] = "exited") =>
                (~ENABLED SelectTimeout(r) /\ ENABLED SelectExit(r))
        /\ ExitBranch(r) =>
                /\ pc[r] = "done" /\ kills[r] = 0 /\ child[r] = "exited"
                /\ LastLog(r) \in {"Child exited", "Error waiting for child"}
        /\ pc[r] = "kill" =>
                (kills[r] = 0 /\ Elapsed(timer[r], now) /\ handle[r] = "owned")
        /\ kills[r] > 0 => (~ExitBranch(r) /\ Elapsed(timer[r], now))

\* C11 witness: the race is evaluated with both ready: the task is at the
\* select, the process has exited and the timer has elapsed; the exit branch
\* can be taken.
C11_Witness ==
    \E r \in Reqs :
        /\ timeout > 0
        /\ pc[r] = "select"
        /\ child[r] = "exited"
        /\ Elapsed(timer[r], now)
        /\ kills[r] = 0
        /\ ENABLED SelectExit(r)

\* the task of r has ended
TaskEnded(r) == pc[r] = "done"

\* C12: for a process whose pipe was obtained the write end is closed exactly
\* once on every path by which the task ends: it is open until the task closes
\* it, closed and never open again from then on, never closed twice, closed
\* when the task has and no write is attempted once it is closed.
C12_PipeClosedOnce ==
    \A r \in Reqs :
        stdin[r] # "none" =>
            /\ closes[r] <= 1
            /\ stdin[r] = "open" <=> closes[r] = 0
            /\ stdin[r] = "closed" <=> closes[r] = 1
            /\ TaskEnded(r) => (stdin[r] = "closed" /\ closes[r] = 1)
            /\ stdin[r] = "open" <=> pc[r] \in {"fold", "write", "shutdown"}
            /\ stdin[r] = "closed" => (~ENABLED Write(r) /\ ~ENABLED WriteErr(r))

\* C12 witness: the task ended on a write error that is no broken pipe, after
\* a part of the body was written, and the pipe was closed once.
C12_Witness ==
    \E r \in Reqs :
        /\ TaskEnded(r)
        /\ writeErr[r] = "Other"
        /\ piped[r] # <<>>
        /\ stdin[r] = "closed"
        /\ closes[r] = 1

\* the processes spawned for the request r
ProcsOf(r) == {k \in 1..Len(procs) : procs[k] = r}

\* a is a prefix of b
IsPrefix(a, b) == Len(a) <= Len(b) /\ a = SubSeq(b, 1, Len(a))

\* C13: each request spawns at most one process, every process, pipe and
\* task belongs to exactly one request: requests to one hook path that are
\* handled side by side have a process each, as many processes as requests
\* were spawned for, every process with a pipe of its own that carries only
\* bytes of the body of its own request, and the registry stays as it was.
C13_OneProcessPerRequest ==
    /\ hooks = ConfigHook
    /\ \A k \in 1..Len(procs) : procs[k] \in Reqs
    /\ Len(procs) = Cardinality({r \in Reqs : child[r] # "none"})
    /\ \A r \in Reqs :
         /\ Cardinality(ProcsOf(r)) = IF child[r] = "none" THEN 0 ELSE 1
         /\ stdin[r] # "none" => child[r] # "none"
         /\ pc[r] \notin {"new", "returned"} => (stdin[r] # "none" /\ response[r] \in {NoResponse, Accepted})
         /\ IsPrefix(vec[r], Concat(request[r].chunks))
         /\ IsPrefix(piped[r], Concat(request[r].chunks))
         /\ (pc[r] = "select" /\ writeErr[r] = None) => piped[r] = Concat(request[r].chunks)

\* C13 witness: every one of the requests to the path has a process of its
\* own that has got the body of its request, all of it; the task of the last
\* request has ended while the task of the first is still waiting.
C13_Witness ==
    /\ Len(procs) = MaxSame
    /\ \A r \in Reqs :
         /\ request[r].path = request[1].path
         /\ piped[r] = Concat(SameBody(r))
         /\ Cardinality(ProcsOf(r)) = 1
    /\ pc[1] = "select"
    /\ pc[MaxSame] = "done"
    /\ Protected(1)

\* the program of the hook could not be executed for r
SpawnFailed(r) == Logged(r, "Failed to execute command")

\* C14 as stated: when the process of a request that passed the synchronous
\* decision cannot be spawned, the failure is logged only and the status the
\* client sees is 200.
C14_Original ==
    \A r \in Reqs : (Accepts(r) /\ SpawnFailed(r)) => response[r].status = 200

\* C14, amended: the process is spawned inside Service::call, before the
\* response is produced: when that fails for a request that passed the
\* synchronous decision, the failure is logged, the response is 500 with an
\* empty body, and no task is started; a request that was answered 200 has
\* its process.
C14_SpawnFailure500 ==
    \A r \in Reqs :
        /\ (Accepts(r) /\ SpawnFailed(r)) =>
                /\ response[r] = [status |-> 500, body |-> <<>>]
                /\ Untouched(r)
                /\ ProcsOf(r) = {}
                /\ log[r] = <<"Executing a hook", "Failed to execute command">>
        /\ response[r].status = 200 => (~SpawnFailed(r) /\ child[r] # "none")

\* C14 witness: a signed request to the protected hook whose program could
\* not be executed was answered 500.
C14_Witness ==
    \E r \in Reqs :
        /\ GoodDigest(r)
        /\ request[r].chunks # <<>>
        /\ SpawnFailed(r)
        /\ response[r].status = 500
        /\ pc[r] = "returned"

\* the process of r runs and no task holds its handle
Unsupervised(r) == child[r] = "running" /\ handle[r] # "owned"

\* the write end of the standard input of the process could not be obtained
NoStdin(r) == Logged(r, "Failed to open stdin of child")

\* C15: both kinds of failure, the program that cannot be executed and the
\* write end that cannot be obtained, abort the dispatch with no side effect
\* but the log entry: no body chunk is read, no byte is written, no task is
\* started, and no spawned process is left running without a supervisor.
\* The first kind leaves no process at all; the second kind does not occur,
\* since the command asks for a pipe and every spawned process has its write
\* end.
C15_SpawnFailureNoSideEffect ==
    \A r \in Reqs :
        /\ (SpawnFailed(r) \/ NoStdin(r)) =>
            /\ pc[r] = "returned"
            /\ nread[r] = 0 /\ vec[r] = <<>> /\ piped[r] = <<>>
            /\ stdin[r] = "none" /\ ~timer[r].set /\ kills[r] = 0
            /\ ~Unsupervised(r)
        /\ SpawnFailed(r) =>
            /\ ProcsOf(r) = {} /\ child[r] = "none"
            /\ log[r] = <<"Executing a hook", "Failed to execute command">>
        /\ child[r] # "none" => (stdin[r] # "none" /\ ~NoStdin(r))

\* C15 witness: the program of the open hook could not be executed for a
\* request with a body of two chunks; none of them was read.
C15_Witness ==
    \E r \in Reqs :
        /\ SpawnFailed(r)
        /\ ~Protected(r)
        /\ Len(request[r].chunks) = 2
        /\ nread[r] = 0
        /\ procs = <<>>

\* the whole body of r has been taken from the stream
BodyConsumed(r) ==
    nread[r] = Len(request[r].chunks) /\ vec[r] = Concat(request[r].chunks)

\* the digest of the body was found right, or none was asked for
Authenticated(r) == Protected(r) => GoodDigest(r)

\* C16: within one request the whole body is consumed, then the digest is
\* decided, then the pipe is written, then the pipe is closed, then the
\* supervised wait starts: the decision is taken on the whole body, no byte
\* is written before the decision, the wait starts on a closed pipe, and
\* once the pipe is closed no chunk is read and no byte is written.
C16_TaskOrder ==
    \A r \in Reqs :
        /\ (Logged(r, "Signature mismatch") \/ pc[r] \in {"write", "shutdown"}) =>
                BodyConsumed(r)
        /\ (piped[r] # <<>> \/ pc[r] \in {"write", "shutdown", "select", "kill"}) =>
                (BodyConsumed(r) /\ Authenticated(r) /\ ~request[r].bodyErr)
        /\ pc[r] \in {"fold", "write"} => stdin[r] = "open"
        /\ (pc[r] \in {"select", "kill"} \/ timer[r].set \/ ExitBranch(r) \/ kills[r] > 0) =>
                stdin[r] = "closed"
        /\ stdin[r] = "closed" =>
                (~ENABLED FoldChunk(r) /\ ~ENABLED Write(r) /\ ~ENABLED FoldEnd(r))

\* C16 witness: a signed body of two chunks was consumed, found right and
\* written, the pipe is closed and the wait has started.
C16_Witness ==
    \E r \in Reqs :
        /\ GoodDigest(r)
        /\ nread[r] = 2
        /\ piped[r] = Concat(request[r].chunks)
        /\ stdin[r] = "closed"
        /\ pc[r] = "select"
        /\ timer[r].set

\* the task of r got as far as the supervised wait
Supervised(r) ==
    \/ pc[r] \in {"select", "kill"}
    \/ pc[r] = "done" /\ (ExitBranch(r) \/ kills[r] > 0)

\* C17: a broken pipe met by the write, or by the shutdown, does not stop the
\* task: nothing is logged for it, the pipe is closed and the supervised wait
\* is run, with the timer if there is a timeout.  Any other error of the
\* write or of the shutdown is logged and ends the task: no byte is written
\* after it.
C17_BrokenPipeBenign ==
    \A r \in Reqs :
        /\ writeErr[r] = "BrokenPipe" =>
                /\ ~Logged(r, "Failed to write to the pipe")
                /\ pc[r] \in {"shutdown", "select", "kill", "done"}
                /\ (pc[r] # "shutdown" /\ shutErr[r] # "Other") => Supervised(r)
        /\ shutErr[r] = "BrokenPipe" =>
                /\ ~Logged(r, "Failed to close the pipe")
                /\ Supervised(r)
        /\ Supervised(r) =>
                (stdin[r] = "closed" /\ closes[r] = 1 /\ (timeout > 0 => timer[r].set))
        /\ writeErr[r] = "Other" =>
                /\ LastLog(r) = "Failed to write to the pipe"
                /\ pc[r] = "done" /\ ~Supervised(r)
                /\ Len(piped[r]) < Len(vec[r])
        /\ shutErr[r] = "Other" =>
                /\ LastLog(r) = "Failed to close the pipe"
                /\ pc[r] = "done" /\ ~Supervised(r)
        /\ pc[r] = "done" => (~ENABLED Write(r) /\ ~ENABLED WriteErr(r))

\* C17 witness: the write met a broken pipe after the first byte, the
\* shutdown met one too, and the task waits for the process with the timer.
C17_Witness ==
    \E r \in Reqs :
        /\ writeErr[r] = "BrokenPipe"
        /\ shutErr[r] = "BrokenPipe"
        /\ Len(piped[r]) = 1
        /\ pc[r] = "select"
        /\ timer[r].set
        /\ stdin[r] = "closed"

\* the body stream of r failed
ReadFailed(r) == Logged(r, "Failed to read request body")

\* C18: for a hook with a secret and for a hook without one, no byte is
\* written to the pipe before the body stream has ended: while the body is
\* being read nothing is written and no write is attempted.  When the stream
\* reports an error after any number of chunks, the process has received no
\* byte, no write is ever made, and the pipe is closed.
C18_WholeBodyBuffered ==
    \A r \in Reqs :
        /\ pc[r] = "fold" => (piped[r] = <<>> /\ ~ENABLED Write(r) /\ ~ENABLED WriteErr(r))
        /\ piped[r] # <<>> => (BodyConsumed(r) /\ ~request[r].bodyErr)
        /\ (request[r].bodyErr /\ child[r] # "none") =>
                (piped[r] = <<>> /\ pc[r] \in {"returned", "fold", "done"})
        /\ ReadFailed(r) =>
                /\ request[r].bodyErr
                /\ nread[r] = Len(request[r].chunks)
                /\ piped[r] = <<>> /\ writeErr[r] = None
                /\ pc[r] = "done"
                /\ stdin[r] = "closed" /\ closes[r] = 1

\* C18 witness: the stream of a request to the hook without a secret failed
\* after two chunks: the process got nothing and its pipe is closed.
C18_Witness ==
    \E r \in Reqs :
        /\ Matches(r) /\ ~Protected(r)
        /\ ReadFailed(r)
        /\ nread[r] = 2
        /\ vec[r] = <<104, 105>>
        /\ piped[r] = <<>>
        /\ stdin[r] = "closed"

\* the client of r has not finished sending the body
Sending(r) == pc[r] = "fold" /\ nread[r] < Len(request[r].chunks)

\* C19: the timer is made only when the whole body has been received and the
\* pipe has been closed, and it counts from that moment, not from the spawn:
\* a timer is set only on a closed pipe and a consumed body, and its deadline
\* is the timeout after the moment it was made.  As long as the body is
\* being read, written or the pipe is open, there is no timer, the process is
\* not killed and no kill can be issued, whatever the clock shows.
C19_TimerAfterClose ==
    /\ [](\A r \in Reqs :
            /\ timer[r].set =>
                    (timeout > 0 /\ BodyConsumed(r) /\ stdin[r] = "closed")
            /\ pc[r] \in {"fold", "write", "shutdown"} =>
                    /\ ~timer[r].set
                    /\ kills[r] = 0 /\ child[r] # "killed"
                    /\ ~ENABLED SelectTimeout(r) /\ ~ENABLED Kill(r))
    /\ [][\A r \in Reqs :
            timer'[r] # timer[r] =>
                /\ ~timer[r].set
                /\ timer'[r] = [set |-> TRUE, deadline |-> now + timeout]
                /\ stdin[r] = "open" /\ stdin'[r] = "closed"]_vars

\* C19 witness: with a non-zero timeout the client has not finished sending
\* the body when the timeout has passed since the spawn: the process runs,
\* it was not killed, and the task still waits for the body.
C19_Witness ==
    \E r \in Reqs :
        /\ timeout > 0
        /\ Sending(r)
        /\ now >= timeout
        /\ child[r] = "running"
        /\ kills[r] = 0
        /\ ~timer[r].set

\* the task of r ended by a `return` before the select
EarlyReturn(r) ==
    LastLog(r) \in {"Failed to read request body", "Signature mismatch",
                    "Failed to write to the pipe", "Failed to close the pipe"}

\* C20 as stated: with a non-zero timeout every task whose body stream ends
\* or fails and whose write completes or fails ends, under fair scheduling,
\* by an early return, by seeing the exit of the process, or by the timer and
\* a kill.  With a zero timeout and a process that never exits the task never
\* ends: a task that has ended has a process that has exited or will.
C20_Original ==
    /\ (timeout > 0 /\ pc[1] = "fold") ~> pc[1] = "done"
    /\ [](pc[1] = "done" => (EarlyReturn(1) \/ ExitBranch(1) \/ kills[1] > 0))
    /\ (timeout = 0 /\ pc[1] = "done") ~> child[1] = "exited"

\* C20, amended: the first sentence as stated.  With a zero timeout the task
\* gets to the select or ends by an early return before it; once at the
\* select it leaves it only when the process has exited, so that it never
\* ends while the process runs; a task that has ended while its process
\* runs ended by an early return.
C20_TaskTerminates ==
    /\ (timeout > 0 /\ pc[1] = "fold") ~> pc[1] = "done"
    /\ [](pc[1] = "done" => (EarlyReturn(1) \/ ExitBranch(1) \/ kills[1] > 0))
    /\ (timeout = 0 /\ pc[1] = "fold") ~> pc[1] \in {"select", "done"}
    /\ [][(timeout = 0 /\ pc[1] = "select" /\ pc'[1] # "select") =>
                child[1] = "exited"]_vars
    /\ [](timeout = 0 /\ pc[1] = "select" /\ child[1] = "running" =>
                ~ENABLED (SelectExit(1) \/ SelectWaitErr(1) \/ SelectTimeout(1)))
    /\ [](timeout = 0 /\ pc[1] = "done" /\ child[1] = "running" => EarlyReturn(1))

\* C20 witness: with a non-zero timeout a task whose write met a broken pipe
\* and whose process never exited ended by the timer and a kill.
C20_Witness ==
    /\ timeout > 0
    /\ pc[1] = "done"
    /\ writeErr[1] = "BrokenPipe"
    /\ child[1] = "killed"
    /\ kills[1] = 1
    /\ Elapsed(timer[1], now)

====
